---- MODULE Spec2Model ----
(***************************************************************************)
(* Model of the agent reliability tester: ReliabilityTester (prompt       *)
(* loading, test_prompt, run_tests, _combine_reports) and LLMClient        *)
(* (generate_text, chunk_and_process).                                     *)
(*                                                                         *)
(* A text is a sequence of tokens.  A token stands for a fixed string of   *)
(* characters (a word, a digit, a punctuation mark, a template literal or  *)
(* a run of filler characters); TokLen gives its number of characters, so  *)
(* the character length of a text is the sum of its tokens' lengths.       *)
(***************************************************************************)
EXTENDS Integers, Sequences, FiniteSets, TLC

\* ------------------------------------------------------------- bounds
\* Longest prompts document (number of entries of its `prompts` list).
MaxDocLen == 6
\* Largest configured advanced.repeat_count.
MaxRepeat == 6
\* Largest number of phrases in a synthesized report text.
MaxPhrases == 2
\* Largest number of generate_text calls made directly on one client.
MaxCalls == 2

\* -------------------------------------------------- program constants
\* load_prompts keeps the first 5 entries.
PromptLimit == 5
\* evaluate_repeatability reads responses[0] .. responses[4].
RepeatSlots == 5
\* chunk_and_process: 4 characters are one token.
CharsPerToken == 4
\* chunk_and_process: a field longer than this is summarized.
LargeFieldChars == 8000
\* chunk_and_process: max_tokens of a summarization call.
SummaryMaxTokens == 2000
\* generate_text: default max_tokens.
DefaultMaxTokens == 4000
\* _combine_reports: characters of the query used as default description.
DescChars == 30

\* Character counts of the literal segments of the three templates, of the
\* summarization request and of the disclosure note.
VisALen == 285
VisBLen == 18
VisCLen == 987
RepALen == 326
RepBLen == 14
RepCLen == 1012
RptALen == 182
RptBLen == 28
RptCLen == 973
SumPreLen == 88
NoteLen == 70

\* ---------------------------------------------------------------- texts
Digits == {"0", "1", "5", "6", "7", "8", "9"}

IsDigit(tok) == tok \in Digits

\* Number of characters of a token.
TokLen(tok) ==
  CASE tok = "VisA" -> VisALen
    [] tok = "VisB" -> VisBLen
    [] tok = "VisC" -> VisCLen
    [] tok = "RepA" -> RepALen
    [] tok \in {"RepB1", "RepB2", "RepB3", "RepB4", "RepB5"} -> RepBLen
    [] tok = "RepC" -> RepCLen
    [] tok = "RptA" -> RptALen
    [] tok = "RptB" -> RptBLen
    [] tok = "RptC" -> RptCLen
    [] tok = "SumPre" -> SumPreLen
    [] tok = "Note" -> NoteLen
    [] tok = "F8000" -> 8000
    [] tok = "F1000" -> 1000
    [] tok = "F100" -> 100
    [] tok = "F30" -> 30
    [] tok = "F10" -> 10
    [] tok \in {"Overall", "overall"} -> 7
    [] tok \in {"Reliability", "reliability"} -> 11
    [] tok \in {"Score", "score"} -> 5
    [] tok = "of" -> 2
    [] tok = "out" -> 3
    [] tok = "..." -> 3
    [] OTHER -> 1

RECURSIVE CharLen(_)
\* len(text)
CharLen(text) ==
  IF text = <<>> THEN 0 ELSE TokLen(Head(text)) + CharLen(Tail(text))

RECURSIVE TakeChars(_, _)
\* text[:n], for a cut that falls between two tokens
TakeChars(text, n) ==
  IF text = <<>> \/ TokLen(Head(text)) > n THEN <<>>
  ELSE <<Head(text)>> \o TakeChars(Tail(text), n - TokLen(Head(text)))

\* ------------------------------------------------------------ templates
Lit(tok) == [kind |-> "lit", v |-> tok]
Ph(key) == [kind |-> "ph", v |-> key]

visibility_prompt ==
  <<Lit("VisA"), Ph("query"), Lit("VisB"), Ph("response"), Lit("VisC")>>

repeatability_prompt ==
  <<Lit("RepA"), Ph("query"),
    Lit("RepB1"), Ph("response_1"), Lit("RepB2"), Ph("response_2"),
    Lit("RepB3"), Ph("response_3"), Lit("RepB4"), Ph("response_4"),
    Lit("RepB5"), Ph("response_5"), Lit("RepC")>>

report_prompt ==
  <<Lit("RptA"), Ph("visibility_evaluation"),
    Lit("RptB"), Ph("repeatability_evaluation"), Lit("RptC")>>

\* A dict is a sequence of <<key, value>> pairs in insertion order.
Lookup(content, key) ==
  content[CHOOSE i \in DOMAIN content : content[i][1] = key][2]

RECURSIVE Format(_, _)
\* prompt_template.format(**content)
Format(template, content) ==
  IF template = <<>> THEN <<>>
  ELSE (IF Head(template).kind = "lit"
        THEN <<Head(template).v>>
        ELSE Lookup(content, Head(template).v))
       \o Format(Tail(template), content)

\* ------------------------------------------------------ score extraction
\* A score pattern: the literal it starts with, whether a lazy `.*?` follows
\* the literal, and the literal that must follow the captured number.
Pat(lit, gap, suffix) == [lit |-> lit, gap |-> gap, suffix |-> suffix]

Slash10 == <<"/", "1", "0">>

\* re.IGNORECASE: the lower-case form of a token
Lower(tok) ==
  CASE tok = "Overall" -> "overall"
    [] tok = "Reliability" -> "reliability"
    [] tok = "Score" -> "score"
    [] OTHER -> tok

\* the literal lit occurs in text at position s
MatchLit(text, s, lit) ==
  /\ s + Len(lit) - 1 <= Len(text)
  /\ \A k \in 1..Len(lit) : Lower(text[s + k - 1]) = lit[k]

\* s matches \d+(?:\.\d+)?
IsNumber(s) ==
  /\ Len(s) >= 1
  /\ \/ \A k \in 1..Len(s) : IsDigit(s[k])
     \/ \E d \in 2..(Len(s) - 1) :
          /\ s[d] = "."
          /\ \A k \in 1..(d - 1) : IsDigit(s[k])
          /\ \A k \in (d + 1)..Len(s) : IsDigit(s[k])

\* The ends e (exclusive) of the numbers text[p..e-1] that suffix follows.
\* The greedy quantifiers prefer the longest one.
NumberEnds(text, p, suffix) ==
  {e \in (p + 1)..(Len(text) + 1) :
     IsNumber(SubSeq(text, p, e - 1)) /\ MatchLit(text, e, suffix)}

SetMax(S) == CHOOSE x \in S : \A y \in S : y <= x
SetMin(S) == CHOOSE x \in S : \A y \in S : x <= y

\* The positions where the number may start in a match that starts at s:
\* after the literal and, with `.*?`, any run of characters other than a
\* line break.
NumberStarts(text, s, pat) ==
  IF ~MatchLit(text, s, pat.lit) THEN {}
  ELSE LET q == s + Len(pat.lit)
       IN {p \in q..Len(text) :
             /\ pat.gap \/ p = q
             /\ \A k \in q..(p - 1) : text[k] # "NL"
             /\ NumberEnds(text, p, pat.suffix) # {}}

\* the start positions at which pat matches
MatchStarts(text, pat) ==
  {s \in 1..Len(text) : NumberStarts(text, s, pat) # {}}

\* re.search(pattern, text, re.IGNORECASE) finds a match
Matches(text, pat) == MatchStarts(text, pat) # {}

\* score_match.group(1): leftmost match, lazy gap, greedy number
Group1(text, pat) ==
  LET s == SetMin(MatchStarts(text, pat))
      p == SetMin(NumberStarts(text, s, pat))
      e == SetMax(NumberEnds(text, p, pat.suffix))
  IN SubSeq(text, p, e - 1)

NA == <<"N/A">>

\* score_patterns with each generic pattern before its `/10` form
score_patterns_generic_first ==
  << Pat(<<"overall", " ", "score">>, TRUE, <<>>),
     Pat(<<"overall", " ", "score">>, TRUE, Slash10),
     Pat(<<"reliability", " ", "score">>, TRUE, <<>>),
     Pat(<<"reliability", " ", "score">>, TRUE, Slash10),
     Pat(<<"score", " ", "of", " ">>, FALSE, <<>>),
     Pat(<<"score", " ", "of", " ">>, FALSE, Slash10) >>

\* score_patterns, in the order of the list
score_patterns ==
  << Pat(<<"overall", " ", "score">>, TRUE, Slash10),
     Pat(<<"overall", " ", "score">>, TRUE, <<>>),
     Pat(<<"reliability", " ", "score">>, TRUE, Slash10),
     Pat(<<"reliability", " ", "score">>, TRUE, <<>>),
     Pat(<<"score", " ", "of", " ">>, FALSE, Slash10),
     Pat(<<"score", " ", "of", " ">>, FALSE, <<>>) >>

RECURSIVE FirstScore(_, _)
\* the loop over score_patterns with its break
FirstScore(patterns, text) ==
  IF patterns = <<>> THEN NA
  ELSE IF Matches(text, Head(patterns)) THEN Group1(text, Head(patterns))
  ELSE FirstScore(Tail(patterns), text)

ExtractScore(text) == FirstScore(score_patterns, text)

\* ------------------------------------------------------------------ state
VARIABLES
  repeat_count,            \* config["advanced"]["repeat_count"]
  max_tokens_per_call,     \* config["advanced"]["max_tokens_per_call"]
  doc,                     \* the parsed prompts document
  environ,                 \* os.environ: the two API key variables
  llm_provider,            \* config["llm_provider"]
  llm_client,              \* the LLMClient, or why there is none
  gt_calls,                \* the generate_text calls made on the client
  pc,                      \* position in run_tests / test_prompt
  prompts,                 \* run_tests: the loaded prompts
  pidx,                    \* run_tests: index of the prompt under test
  response,                \* test_prompt: the visibility response
  visibility_evaluation,   \* test_prompt
  responses,               \* test_prompt: the repeatability responses
  repeatability_evaluation,\* test_prompt
  all_results,             \* run_tests: the PromptResults so far
  file,                    \* the writes made to the report file
  ret,                     \* what run_tests returned
  raised,                  \* the exception that left run_tests, or "none"
  calls,                   \* the external calls of the current test_prompt
  cp_pc,                   \* position in chunk_and_process
  cp_template,             \* chunk_and_process: prompt_template
  cp_content,              \* chunk_and_process: content
  cp_max,                  \* chunk_and_process: max_tokens_per_chunk
  cp_i,                    \* chunk_and_process: next item of content.items()
  cp_summarized,           \* chunk_and_process: summarized_content
  cp_calls,                \* the generate_text calls of this invocation
  cp_ret                   \* chunk_and_process: the returned text

cfgVars == <<repeat_count, max_tokens_per_call, doc, environ, llm_provider,
             llm_client, gt_calls>>
runVars == <<pc, prompts, pidx, response, visibility_evaluation, responses,
             repeatability_evaluation, all_results, file, ret, raised>>
cpVars == <<cp_pc, cp_template, cp_content, cp_max, cp_i, cp_summarized,
            cp_calls, cp_ret>>
vars == <<cfgVars, runVars, calls, cpVars>>

\* ------------------------------------------------------ the environment
\* Texts the agent under test may answer with: a short one, and one longer
\* than LargeFieldChars.
AgentTexts == {<<"F100">>, <<"F8000", "F10">>}

ScoreLine == <<"Overall", " ", "Reliability", " ", "Score", ":", " ",
               "7", ".", "5", "/", "1", "0">>

\* Texts the judge may answer with, by what it is asked: a summary (short
\* or, of a text of 9000 characters, still long), a report with the score
\* line, an evaluation.  (ReportTexts below holds the other reports.)
JudgeTexts(prompt) ==
  IF Head(prompt) = "SumPre"
  THEN {<<"F100">>}
         \cup (IF CharLen(Tail(prompt)) >= 9000
               THEN {<<"F8000", "F1000">>} ELSE {})
  ELSE IF \E i \in DOMAIN prompt : prompt[i] = "RptA"
       THEN {<<"F100", "NL">> \o ScoreLine}
  ELSE {<<"F1000">>}

\* ----------------------------------------------- LLMClient construction
\* A provider argument: a string, or None (a configuration key without a
\* value).
Name(s) == [isNone |-> FALSE, name |-> s]
NoneArg == [isNone |-> TRUE, name |-> ""]

ProviderArgs ==
  {Name("openai"), Name("OpenAI"), Name("anthropic"), Name("ANTHROPIC"),
   Name("azure"), Name(""), NoneArg}

\* provider.lower(), on the names above
StrLower(s) ==
  CASE s = "OpenAI" -> "openai"
    [] s = "ANTHROPIC" -> "anthropic"
    [] OTHER -> s

\* A variable of the environment: unset, set to the empty string, or set to
\* a key.
Unset == [set |-> FALSE, value |-> ""]
Set(v) == [set |-> TRUE, value |-> v]

Environs ==
  [OPENAI_API_KEY : {Unset, Set(""), Set("sk-o")},
   ANTHROPIC_API_KEY : {Unset, Set(""), Set("sk-a")}]

\* `not self.api_key`, for the result of os.environ.get: None or a string
Falsy(v) == ~v.set \/ v.value = ""

OpenAIUrl == "https://api.openai.com/v1/chat/completions"
AnthropicUrl == "https://api.anthropic.com/v1/messages"

\* no client has been constructed
NoClient == [state |-> "none", provider |-> "", api_key |-> "",
             api_url |-> "", error |-> <<>>]

\* the constructed object
Client(provider, api_key, api_url) ==
  [state |-> "constructed", provider |-> provider, api_key |-> api_key,
   api_url |-> api_url, error |-> <<>>]

\* the constructor raised: there is no object
Failed(error) == [state |-> "failed", provider |-> "", api_key |-> "",
                  api_url |-> "", error |-> error]

\* LLMClient.__init__ with any provider name let through
LLMClient_init_unchecked(provider, env) ==
  IF provider.isNone THEN Failed(<<"AttributeError">>)
  ELSE LET p == StrLower(provider.name)
       IN IF p = "openai"
          THEN IF Falsy(env.OPENAI_API_KEY)
               THEN Failed(<<"ValueError", "OPENAI_API_KEY", "is required">>)
               ELSE Client(p, env.OPENAI_API_KEY.value, OpenAIUrl)
          ELSE IF p = "anthropic"
          THEN IF Falsy(env.ANTHROPIC_API_KEY)
               THEN Failed(<<"ValueError", "ANTHROPIC_API_KEY",
                             "is required">>)
               ELSE Client(p, env.ANTHROPIC_API_KEY.value, AnthropicUrl)
          ELSE Client(p, "", "")

\* LLMClient.__init__(provider, model): the client, or the error raised
LLMClient_init(provider, env) ==
  IF provider.isNone THEN Failed(<<"AttributeError">>)
  ELSE LET p == StrLower(provider.name)
       IN IF p = "openai"
          THEN IF Falsy(env.OPENAI_API_KEY)
               THEN Failed(<<"ValueError", "OPENAI_API_KEY", "is required">>)
               ELSE Client(p, env.OPENAI_API_KEY.value, OpenAIUrl)
          ELSE IF p = "anthropic"
          THEN IF Falsy(env.ANTHROPIC_API_KEY)
               THEN Failed(<<"ValueError", "ANTHROPIC_API_KEY",
                             "is required">>)
               ELSE Client(p, env.ANTHROPIC_API_KEY.value, AnthropicUrl)
          ELSE Failed(<<"ValueError", "Unsupported provider",
                        provider.name>>)

\* the branch of generate_text a client takes ("none": neither, the
\* function ends without a request and returns None)
Branch(client) ==
  CASE client.provider = "openai" -> "openai"
    [] client.provider = "anthropic" -> "anthropic"
    [] OTHER -> "none"

NoneText == <<"None">>

\* the tester exists: its client was constructed from its configuration
ClientReady ==
  /\ environ = [OPENAI_API_KEY |-> Set("sk-o"), ANTHROPIC_API_KEY |-> Unset]
  /\ llm_provider = Name("openai")
  /\ llm_client = LLMClient_init(llm_provider, environ)
  /\ gt_calls = <<>>

\* ----------------------------------------------------------- LLMClient
\* generate_text(prompt, max_tokens): the outcomes of one call.  A status
\* of 200 returns the completion; any other status raises.
generate_text(prompt, max_tokens) ==
  IF Branch(llm_client) = "none"
  THEN {[ok |-> TRUE, text |-> NoneText]}
  ELSE {[ok |-> TRUE, text |-> t] : t \in JudgeTexts(prompt)}
         \cup {[ok |-> FALSE, text |-> <<>>]}

\* CallOutcome with a failed call left to be issued again
CallOutcomeRetry(ok, next) == IF ok THEN next ELSE cp_pc

\* where chunk_and_process stands after a generate_text call: a status other
\* than 200 raises, and nothing catches it
CallOutcome(ok, next) == IF ok THEN next ELSE "raised"

\* the phase of test_prompt a judge call belongs to
Phase ==
  CASE pc = "eval_vis" -> "visibility"
    [] pc = "eval_rep" -> "repeatability"
    [] pc = "gen_report" -> "report"
    [] OTHER -> "none"

\* one generate_text call and its record in the logs
Generate(prompt, max_tokens, out) ==
  /\ out \in generate_text(prompt, max_tokens)
  /\ cp_calls' = Append(cp_calls, [prompt |-> prompt,
                                   max_tokens |-> max_tokens,
                                   ok |-> out.ok, text |-> out.text])
  /\ calls' = Append(calls, [kind |-> "judge", phase |-> Phase,
                             query |-> <<>>, ok |-> out.ok])

\* WithinBudget with the boundary excluded
WithinBudgetStrict(prompt, max) == CharLen(prompt) < CharsPerToken * max

\* estimated_tokens <= max_tokens_per_chunk, with estimated_tokens the
\* quotient len(prompt) / 4 (not rounded)
WithinBudget(prompt, max) == CharLen(prompt) <= CharsPerToken * max

\* IsLarge with the threshold included
IsLargeInclusive(value) == CharLen(value) >= LargeFieldChars

\* len(value) > 8000
IsLarge(value) == CharLen(value) > LargeFieldChars

summary_prompt(value) == <<"SumPre">> \o value

\* the loop over content.items() is running
InLoop ==
  \/ cp_pc = "loop"
  \/ /\ cp_pc = "entry"
     /\ ~WithinBudget(Format(cp_template, cp_content), cp_max)

\* the large items from item cp_i on
LargeFrom == {j \in cp_i..Len(cp_content) : IsLarge(cp_content[j][2])}

\* chunk_and_process, within budget: one call with the rendered prompt
ChunkDirect ==
  /\ cp_pc = "entry"
  /\ LET prompt == Format(cp_template, cp_content)
     IN /\ WithinBudget(prompt, cp_max)
        /\ \E out \in generate_text(prompt, DefaultMaxTokens) :
             /\ Generate(prompt, DefaultMaxTokens, out)
             /\ cp_pc' = CallOutcome(out.ok, "returned")
             /\ cp_ret' = out.text
  /\ UNCHANGED <<cfgVars, runVars, cp_template, cp_content, cp_max, cp_i,
                 cp_summarized>>

\* chunk_and_process, over budget: the loop up to and including the next
\* large item, which is replaced by its summary
ChunkSummarize ==
  /\ InLoop
  /\ LargeFrom # {}
  /\ LET j == SetMin(LargeFrom)
         value == cp_content[j][2]
     IN \E out \in generate_text(summary_prompt(value), SummaryMaxTokens) :
          /\ Generate(summary_prompt(value), SummaryMaxTokens, out)
          /\ cp_pc' = CallOutcome(out.ok, "loop")
          /\ cp_summarized' =
               IF out.ok
               THEN cp_summarized \o SubSeq(cp_content, cp_i, j - 1)
                      \o << <<cp_content[j][1], out.text>> >>
               ELSE cp_summarized
          /\ cp_i' = IF out.ok THEN j + 1 ELSE cp_i
  /\ UNCHANGED <<cfgVars, runVars, cp_template, cp_content, cp_max, cp_ret>>

\* WithNote with the note left out when no field was summarized
WithNoteIfSummarized(prompt) ==
  IF \E j \in DOMAIN cp_content : IsLarge(cp_content[j][2])
  THEN <<"Note">> \o prompt ELSE prompt

\* the disclosure note put before the summarized prompt
WithNote(prompt) == <<"Note">> \o prompt

\* chunk_and_process, over budget: the rest of the loop, then the final call
ChunkFinal ==
  /\ InLoop
  /\ LargeFrom = {}
  /\ LET summarized == cp_summarized
                         \o SubSeq(cp_content, cp_i, Len(cp_content))
         summarized_prompt == WithNote(Format(cp_template, summarized))
     IN \E out \in generate_text(summarized_prompt, DefaultMaxTokens) :
          /\ Generate(summarized_prompt, DefaultMaxTokens, out)
          /\ cp_pc' = CallOutcome(out.ok, "returned")
          /\ cp_ret' = out.text
          /\ cp_summarized' = summarized
          /\ cp_i' = Len(cp_content) + 1
  /\ UNCHANGED <<cfgVars, runVars, cp_template, cp_content, cp_max>>

\* ------------------------------------------- chunk_and_process on its own
\* Field values: short, exactly LargeFieldChars long, one character longer,
\* and much longer.
FieldTexts == {<<"F10">>, <<"F8000">>, <<"F8000", "x">>, <<"F8000", "F1000">>}

\* max_tokens_per_chunk: below every rendering, equal to the estimate of the
\* visibility rendering with fields of 10 and 8000 characters, and the default.
MaxTokensChoices == {300, 2325, 12000}

NoDoc == [isNone |-> FALSE, hasPrompts |-> FALSE, promptsIsNone |-> FALSE,
          prompts |-> <<>>]
NoReturn == [kind |-> "none"]

\* run_tests is not running
RunIdle ==
  /\ doc = NoDoc
  /\ prompts = <<>>
  /\ pidx = 0
  /\ response = <<>>
  /\ visibility_evaluation = <<>>
  /\ responses = <<>>
  /\ repeatability_evaluation = <<>>
  /\ all_results = <<>>
  /\ file = <<>>
  /\ ret = NoReturn
  /\ raised = "none"
  /\ calls = <<>>

\* the state on entry to chunk_and_process(template, content, max)
ChunkEntered(template, content, max) ==
  /\ cp_pc = "entry"
  /\ cp_template = template
  /\ cp_content = content
  /\ cp_max = max
  /\ cp_i = 1
  /\ cp_summarized = <<>>
  /\ cp_calls = <<>>
  /\ cp_ret = <<>>

\* the call chunk_and_process(template, content, max)
ChunkEnter(template, content, max) ==
  /\ cp_pc' = "entry"
  /\ cp_template' = template
  /\ cp_content' = content
  /\ cp_max' = max
  /\ cp_i' = 1
  /\ cp_summarized' = <<>>
  /\ cp_calls' = <<>>
  /\ cp_ret' = <<>>

InitChunk ==
  /\ repeat_count = RepeatSlots
  /\ max_tokens_per_call \in MaxTokensChoices
  /\ pc = "unit"
  /\ RunIdle
  /\ ClientReady
  /\ \E a \in FieldTexts, b \in FieldTexts :
       \/ ChunkEntered(visibility_prompt,
                       << <<"query", a>>, <<"response", b>> >>,
                       max_tokens_per_call)
       \/ ChunkEntered(report_prompt,
                       << <<"visibility_evaluation", a>>,
                          <<"repeatability_evaluation", b>> >>,
                       max_tokens_per_call)

NextChunk == ChunkDirect \/ ChunkSummarize \/ ChunkFinal

SpecChunk == InitChunk /\ [][NextChunk]_vars

\* ------------------------------------------ claims on chunk_and_process
\* the rendering of the template with the fields as given
Rendered == Format(cp_template, cp_content)

\* the first estimate is over the budget
OverBudget == CharLen(Rendered) > CharsPerToken * cp_max

\* the positions of the fields longer than 8000 characters
LargeFields ==
  {j \in DOMAIN cp_content : CharLen(cp_content[j][2]) > LargeFieldChars}

\* the number of large fields up to position j
Rank(j) == Cardinality({i \in LargeFields : i <= j})

\* the fields, each large one replaced by the reply to its summarization call
Substituted ==
  [j \in DOMAIN cp_content |->
     IF j \in LargeFields
     THEN <<cp_content[j][1], cp_calls[Rank(j)].text>>
     ELSE cp_content[j]]

\* C7: when the estimate of the rendered prompt exceeds the budget,
\* chunk_and_process issues one summarization call (max_tokens 2000) for each
\* field longer than 8000 characters, in field order and before the final
\* call; the final call's prompt is the note followed by the template
\* rendered with each such field replaced by its summary and every other
\* field unchanged; a completed invocation has made exactly these calls and
\* returns the final call's result, whatever the size of the final prompt.
C7_SummarizeThenSend ==
  OverBudget =>
    LET n == Cardinality(LargeFields)
    IN /\ Len(cp_calls) <= n + 1
       /\ \A k \in 1..Len(cp_calls) : k < Len(cp_calls) => cp_calls[k].ok
       /\ \A j \in LargeFields :
            Rank(j) <= Len(cp_calls) =>
              /\ cp_calls[Rank(j)].prompt = <<"SumPre">> \o cp_content[j][2]
              /\ cp_calls[Rank(j)].max_tokens = SummaryMaxTokens
       /\ Len(cp_calls) = n + 1 =>
            cp_calls[n + 1].prompt
              = <<"Note">> \o Format(cp_template, Substituted)
       /\ cp_pc = "returned" =>
            /\ Len(cp_calls) = n + 1
            /\ cp_calls[n + 1].ok
            /\ cp_ret = cp_calls[n + 1].text
       /\ cp_pc = "loop" => Len(cp_calls) <= n

\* C7 witness: a completed over-budget invocation with a large field and a
\* field of exactly 8000 characters, whose final prompt was still over budget.
C7_Witness ==
  /\ cp_pc = "returned"
  /\ OverBudget
  /\ LargeFields # {}
  /\ \E j \in DOMAIN cp_content : CharLen(cp_content[j][2]) = LargeFieldChars
  /\ Len(cp_calls) = Cardinality(LargeFields) + 1
  /\ CharLen(cp_calls[Len(cp_calls)].prompt) > CharsPerToken * cp_max

\* C8: when the estimate of the rendered prompt is within the budget (the
\* boundary included), chunk_and_process makes exactly one generate_text
\* call, with the rendered template itself as its prompt, and returns that
\* call's result.
C8_DirectCall ==
  ~OverBudget =>
    /\ Len(cp_calls) <= 1
    /\ cp_pc \in {"returned", "raised"} =>
         /\ Len(cp_calls) = 1
         /\ cp_calls[1].prompt = Rendered
         /\ cp_calls[1].max_tokens = DefaultMaxTokens
    /\ cp_pc = "returned" => cp_calls[1].ok /\ cp_ret = cp_calls[1].text
    /\ cp_pc # "loop"

\* C8 witness: a completed invocation whose estimate equals the budget.
C8_Witness ==
  /\ cp_pc = "returned"
  /\ CharLen(Rendered) = CharsPerToken * cp_max
  /\ Len(cp_calls) = 1
  /\ cp_calls[1].prompt = Rendered

\* ------------------------------------------------------ ReliabilityTester
\* The prompts documents: entry i of a `prompts` list.  Odd entries carry an
\* id and a description, even ones only the text.
QToks == <<"q1", "q2", "q3", "q4", "q5", "q6", "q7", "q8">>

Entry(i) ==
  IF i % 2 = 1
  THEN [id |-> <<"id", QToks[i]>>, text |-> <<"F30", QToks[i]>>,
        description |-> <<"F10", QToks[i]>>]
  ELSE [text |-> <<"F30", QToks[i]>>]

Entries(n) == [i \in 1..n |-> Entry(i)]

\* an empty document; a mapping without the key; the key with no value; the
\* key with a list of 0 .. MaxDocLen entries
Docs ==
  {[isNone |-> TRUE, hasPrompts |-> FALSE, promptsIsNone |-> FALSE,
    prompts |-> <<>>],
   NoDoc,
   [isNone |-> FALSE, hasPrompts |-> TRUE, promptsIsNone |-> TRUE,
    prompts |-> <<>>]}
  \cup {[isNone |-> FALSE, hasPrompts |-> TRUE, promptsIsNone |-> FALSE,
         prompts |-> Entries(n)] : n \in 0..MaxDocLen}

\* max_tokens_per_call of the configuration: a budget every rendering
\* exceeds, and one that the renderings with short fields fit
ConfigMaxTokens == {300, 2325}

\* dict.get(key, default)
Get(d, key, default) == IF key \in DOMAIN d THEN d[key] ELSE default

\* s[:n]
Take(s, n) == SubSeq(s, 1, IF Len(s) < n THEN Len(s) ELSE n)

\* load_prompts with one entry more than the limit
load_prompts_one_more(d) ==
  [raised |-> "none", value |-> Take(d.prompts, PromptLimit + 1)]

\* load_prompts: data.get("prompts", [])[:5]
load_prompts(d) ==
  IF d.isNone THEN [raised |-> "AttributeError", value |-> <<>>]
  ELSE IF d.hasPrompts /\ d.promptsIsNone
       THEN [raised |-> "TypeError", value |-> <<>>]
  ELSE [raised |-> "none",
        value |-> Take(IF d.hasPrompts THEN d.prompts ELSE <<>>, PromptLimit)]

NoPromptsMessage == [kind |-> "string"]

\* the state of chunk_and_process when it is not running
ChunkIdle ==
  /\ cp_pc = "idle"
  /\ cp_template = <<>>
  /\ cp_content = <<>>
  /\ cp_max = 0
  /\ cp_i = 0
  /\ cp_summarized = <<>>
  /\ cp_calls = <<>>
  /\ cp_ret = <<>>

\* chunk_and_process is left
ChunkLeave ==
  /\ cp_pc' = "idle"
  /\ cp_template' = <<>>
  /\ cp_content' = <<>>
  /\ cp_max' = 0
  /\ cp_i' = 0
  /\ cp_summarized' = <<>>
  /\ cp_calls' = <<>>
  /\ cp_ret' = <<>>

\* an exception leaves run_tests: its frames and their locals are gone
Abort(exc) ==
  /\ pc' = "failed"
  /\ raised' = exc
  /\ prompts' = <<>>
  /\ pidx' = 0
  /\ response' = <<>>
  /\ visibility_evaluation' = <<>>
  /\ responses' = <<>>
  /\ repeatability_evaluation' = <<>>
  /\ all_results' = <<>>
  /\ ChunkLeave
  /\ UNCHANGED <<cfgVars, file, ret>>

Init ==
  /\ repeat_count \in 0..MaxRepeat
  /\ max_tokens_per_call \in ConfigMaxTokens
  /\ doc \in Docs
  /\ pc = "start"
  /\ prompts = <<>>
  /\ pidx = 0
  /\ response = <<>>
  /\ visibility_evaluation = <<>>
  /\ responses = <<>>
  /\ repeatability_evaluation = <<>>
  /\ all_results = <<>>
  /\ file = <<>>
  /\ ret = NoReturn
  /\ raised = "none"
  /\ calls = <<>>
  /\ ChunkIdle
  /\ ClientReady

\* run_tests up to the first test_prompt: load the prompts, return the
\* message when there are none
LoadPrompts ==
  /\ pc = "start"
  /\ LET loaded == load_prompts(doc)
     IN IF loaded.raised # "none"
        THEN Abort(loaded.raised) /\ UNCHANGED calls
        ELSE IF loaded.value = <<>>
        THEN /\ pc' = "done"
             /\ ret' = NoPromptsMessage
             /\ UNCHANGED <<cfgVars, prompts, pidx, response,
                            visibility_evaluation, responses,
                            repeatability_evaluation, all_results, file,
                            raised, calls, cpVars>>
        ELSE /\ pc' = "agent_vis"
             /\ prompts' = loaded.value
             /\ pidx' = 1
             /\ UNCHANGED <<cfgVars, response, visibility_evaluation,
                            responses, repeatability_evaluation, all_results,
                            file, ret, raised, calls, cpVars>>

query == prompts[pidx].text

AgentCall(phase, q, ok) ==
  [kind |-> "agent", phase |-> phase, query |-> q, ok |-> ok]

Sleep == [kind |-> "sleep", phase |-> "repeatability", query |-> <<>>,
          ok |-> TRUE]

\* test_prompt: the visibility call of the agent, then evaluate_visibility up
\* to its entry into chunk_and_process
AgentVisibility ==
  /\ pc = "agent_vis"
  /\ \/ \E r \in AgentTexts :
          /\ calls' = <<AgentCall("visibility", query, TRUE)>>
          /\ response' = r
          /\ pc' = "eval_vis"
          /\ ChunkEnter(visibility_prompt,
                          << <<"query", query>>, <<"response", r>> >>,
                          max_tokens_per_call)
          /\ UNCHANGED <<cfgVars, prompts, pidx, visibility_evaluation,
                         responses, repeatability_evaluation, all_results,
                         file, ret, raised>>
     \/ /\ calls' = <<AgentCall("visibility", query, FALSE)>>
        /\ Abort("AgentError")

\* the loop `for i in range(self.repeat_count)` with one run too many
RepeatLoopRunsOneMore(n) == n <= repeat_count

\* the loop `for i in range(self.repeat_count)` runs again after n runs
RepeatLoopRuns(n) == n < repeat_count

\* repeat_prompt_data with a missing response read as the empty text
repeat_prompt_data_padded(q, rs) ==
  LET at(k) == IF k <= Len(rs) THEN rs[k] ELSE <<>>
  IN [raised |-> "none",
      value |-> << <<"query", q>>,
                   <<"response_1", at(1)>>, <<"response_2", at(2)>>,
                   <<"response_3", at(3)>>, <<"response_4", at(4)>>,
                   <<"response_5", at(5)>> >>]

\* evaluate_repeatability: prompt_data, from responses[0] .. responses[4]
repeat_prompt_data(q, rs) ==
  IF Len(rs) < RepeatSlots THEN [raised |-> "IndexError", value |-> <<>>]
  ELSE [raised |-> "none",
        value |-> << <<"query", q>>,
                     <<"response_1", rs[1]>>, <<"response_2", rs[2]>>,
                     <<"response_3", rs[3]>>, <<"response_4", rs[4]>>,
                     <<"response_5", rs[5]>> >>]

\* test_prompt: evaluate_visibility has returned; the repeatability loop
\* starts, or, with nothing to repeat, evaluate_repeatability is called with
\* the empty list
VisibilityReturned ==
  /\ pc = "eval_vis"
  /\ cp_pc = "returned"
  /\ IF RepeatLoopRuns(0)
     THEN /\ visibility_evaluation' = cp_ret
          /\ response' = <<>>                    \* not read again
          /\ responses' = <<>>
          /\ pc' = "agent_rep"
          /\ ChunkLeave
          /\ UNCHANGED <<cfgVars, prompts, pidx, repeatability_evaluation,
                         all_results, file, ret, raised, calls>>
     ELSE LET data == repeat_prompt_data(query, <<>>)
          IN IF data.raised # "none"
             THEN Abort(data.raised) /\ UNCHANGED calls
             ELSE /\ visibility_evaluation' = cp_ret
                  /\ response' = <<>>
                  /\ responses' = <<>>
                  /\ pc' = "eval_rep"
                  /\ ChunkEnter(repeatability_prompt, data.value,
                                  max_tokens_per_call)
                  /\ UNCHANGED <<cfgVars, prompts, pidx,
                                 repeatability_evaluation, all_results, file,
                                 ret, raised, calls>>

\* PauseAfter with no pause once the loop is over
PauseBetween(n) == IF RepeatLoopRuns(n) THEN <<Sleep>> ELSE <<>>

\* what follows the n-th call of the loop, in every run of it: time.sleep(1)
PauseAfter(n) == <<Sleep>>

\* test_prompt: one run of the repeatability loop (agent call, then the
\* pause); after the last run, evaluate_repeatability up to its entry into
\* chunk_and_process
AgentRepeat ==
  /\ pc = "agent_rep"
  /\ RepeatLoopRuns(Len(responses))
  /\ \/ \E r \in AgentTexts :
          LET rs == Append(responses, r)
              data == repeat_prompt_data(query, rs)
          IN /\ calls' = calls \o <<AgentCall("repeatability", query, TRUE)>>
                              \o PauseAfter(Len(rs))
             /\ IF RepeatLoopRuns(Len(rs))
                THEN /\ responses' = rs
                     /\ UNCHANGED <<cfgVars, pc, prompts, pidx, response,
                                    visibility_evaluation,
                                    repeatability_evaluation, all_results,
                                    file, ret, raised, cpVars>>
                ELSE IF data.raised # "none"
                THEN Abort(data.raised)
                ELSE /\ responses' = rs
                     /\ pc' = "eval_rep"
                     /\ ChunkEnter(repeatability_prompt, data.value,
                                     max_tokens_per_call)
                     /\ UNCHANGED <<cfgVars, prompts, pidx, response,
                                    visibility_evaluation,
                                    repeatability_evaluation, all_results,
                                    file, ret, raised>>
     \/ /\ calls' = Append(calls, AgentCall("repeatability", query, FALSE))
        /\ Abort("AgentError")

\* test_prompt: evaluate_repeatability has returned; generate_report up to
\* its entry into chunk_and_process
RepeatabilityReturned ==
  /\ pc = "eval_rep"
  /\ cp_pc = "returned"
  /\ repeatability_evaluation' = cp_ret
  /\ pc' = "gen_report"
  /\ ChunkEnter(report_prompt,
                  << <<"visibility_evaluation", visibility_evaluation>>,
                     <<"repeatability_evaluation", cp_ret>> >>,
                  max_tokens_per_call)
  /\ responses' = <<>>                   \* not read again
  /\ UNCHANGED <<cfgVars, prompts, pidx, response, visibility_evaluation,
                 all_results, file, ret, raised, calls>>

\* the loop `for prompt in prompts` stopping one prompt early
MorePromptsButLast(i) == i < Len(prompts) - 1

\* the loop `for prompt in prompts` goes on after prompt i
MorePrompts(i) == i < Len(prompts)

\* test_prompt returns its result; run_tests appends it and goes to the next
\* prompt, or on to the report
ReportReturned ==
  /\ pc = "gen_report"
  /\ cp_pc = "returned"
  /\ all_results' = Append(all_results,
       [prompt |-> prompts[pidx],
        visibility_evaluation |-> visibility_evaluation,
        repeatability_evaluation |-> repeatability_evaluation,
        report |-> cp_ret])
  /\ IF MorePrompts(pidx)
     THEN pc' = "agent_vis" /\ pidx' = pidx + 1
     ELSE pc' = "save" /\ pidx' = pidx
  /\ visibility_evaluation' = <<>>
  /\ repeatability_evaluation' = <<>>
  /\ ChunkLeave
  /\ UNCHANGED <<cfgVars, prompts, response, responses, file, ret, raised,
                 calls>>

\* an exception raised in chunk_and_process passes through test_prompt and
\* run_tests
Propagate ==
  /\ pc \in {"eval_vis", "eval_rep", "gen_report"}
  /\ cp_pc = "raised"
  /\ Abort("JudgeError")
  /\ UNCHANGED calls

\* the row of the summary table for one result
SummaryRow(result) ==
  [id |-> Get(result.prompt, "id", <<"Unknown">>),
   description |-> Get(result.prompt, "description",
                       TakeChars(result.prompt.text, DescChars) \o <<"...">>),
   score |-> ExtractScore(result.report)]

\* the section of one result
PromptSection(result) ==
  [id |-> Get(result.prompt, "id", <<"Unknown">>),
   query |-> result.prompt.text,
   report |-> result.report]

\* _combine_reports: the count, the summary table and the sections
combine_reports(results) ==
  [count |-> Len(results),
   rows |-> [i \in DOMAIN results |-> SummaryRow(results[i])],
   sections |-> [i \in DOMAIN results |-> PromptSection(results[i])]]

\* run_tests: combine the reports, write the file, return the text
SaveReport ==
  /\ pc = "save"
  /\ LET combined_report == combine_reports(all_results)
     IN \/ /\ file' = Append(file, combined_report)
           /\ ret' = [kind |-> "report", value |-> combined_report]
           /\ pc' = "done"
           /\ UNCHANGED <<cfgVars, prompts, pidx, response,
                          visibility_evaluation, responses,
                          repeatability_evaluation, all_results, raised,
                          calls, cpVars>>
        \/ Abort("OSError") /\ UNCHANGED calls

Next ==
  \/ LoadPrompts
  \/ AgentVisibility
  \/ VisibilityReturned
  \/ AgentRepeat
  \/ RepeatabilityReturned
  \/ ReportReturned
  \/ Propagate
  \/ SaveReport
  \/ ChunkDirect
  \/ ChunkSummarize
  \/ ChunkFinal

Spec == Init /\ [][Next]_vars

\* ------------------------------------------------- claims on test_prompt
IsCall(e) == e.kind # "sleep"

\* the agent and judge calls of the current test_prompt, in order
ExternalCalls == SelectSeq(calls, IsCall)

\* the place of a call in test_prompt: 1 the visibility call of the agent,
\* 2 the visibility evaluation, 3 a repeatability call of the agent, 4 the
\* repeatability evaluation, 5 the report synthesis
Place(e) ==
  CASE e.kind = "agent" /\ e.phase = "visibility" -> 1
    [] e.kind = "judge" /\ e.phase = "visibility" -> 2
    [] e.kind = "agent" /\ e.phase = "repeatability" -> 3
    [] e.kind = "judge" /\ e.phase = "repeatability" -> 4
    [] e.kind = "judge" /\ e.phase = "report" -> 5
    [] OTHER -> 0

CountAt(place) ==
  Cardinality({i \in DOMAIN ExternalCalls : Place(ExternalCalls[i]) = place})

\* the log holds a test_prompt that has returned its result
TestPromptCompleted ==
  /\ pc \in {"agent_vis", "save", "done"}
  /\ all_results # <<>>

\* C1 as stated: no judge call precedes an agent call of the same
\* test_prompt, and a completed test_prompt has made 1 + repeat_count agent
\* calls.
C1_NoJudgeBeforeLastAgentCall ==
  /\ \A i, j \in DOMAIN calls :
       (i < j /\ calls[i].kind = "judge") => calls[j].kind # "agent"
  /\ TestPromptCompleted => CountAt(1) + CountAt(3) = 1 + repeat_count

\* C1, amended: the calls of a test_prompt occur in the order: one visibility
\* call of the agent, the judge calls of the visibility evaluation, the
\* repeat_count repeatability calls of the agent, the judge calls of the
\* repeatability evaluation, the judge calls of the report synthesis.  The
\* repeatability evaluation and the synthesis come only after all
\* repeat_count repeatability calls, the repeatability calls only after the
\* visibility evaluation, and a completed test_prompt has made
\* 1 + repeat_count agent calls.
C1_CallOrder ==
  LET cs == ExternalCalls
  IN /\ cs # <<>> => Place(cs[1]) = 1
     /\ \A i \in 2..Len(cs) :
          Place(cs[i]) >= 2 /\ Place(cs[i - 1]) <= Place(cs[i])
     /\ CountAt(3) <= repeat_count
     /\ CountAt(3) > 0 => CountAt(2) > 0
     /\ CountAt(4) + CountAt(5) > 0 => CountAt(3) = repeat_count
     /\ CountAt(5) > 0 => CountAt(4) > 0
     /\ TestPromptCompleted =>
          /\ CountAt(1) + CountAt(3) = 1 + repeat_count
          /\ CountAt(2) > 0 /\ CountAt(4) > 0 /\ CountAt(5) > 0

\* C1 witness: a completed test_prompt whose visibility evaluation took more
\* than one judge call.
C1_Witness ==
  /\ TestPromptCompleted
  /\ CountAt(2) >= 2
  /\ CountAt(3) = repeat_count
  /\ CountAt(5) >= 1

\* the values of the response fields of prompt_data, in order
ResponseFields ==
  LET idx == {i \in DOMAIN cp_content : cp_content[i][1] # "query"}
  IN [k \in 1..Cardinality(idx) |->
        cp_content[CHOOSE i \in idx :
                     Cardinality({h \in idx : h <= i}) = k][2]]

\* C2: the repeatability evaluation is built from exactly repeat_count
\* responses, all those collected in the repeatability phase, each a
\* response to the query text of the visibility call.
C2_AllResponsesEvaluated ==
  pc = "eval_rep" =>
    /\ Len(responses) = repeat_count
    /\ ResponseFields = responses
    /\ Lookup(cp_content, "query") = query
    /\ \A i \in DOMAIN calls :
         calls[i].kind = "agent" => calls[i].query = query

\* ---------------------------------------------------- claims on run_tests
\* the document is a mapping whose `prompts` key is missing or empty
NoPromptsDoc ==
  /\ ~doc.isNone
  /\ \/ ~doc.hasPrompts
     \/ doc.promptsIsNone
     \/ doc.prompts = <<>>

\* C3: for a document whose `prompts` key is missing or empty (an empty list,
\* or no value), run_tests returns the explanatory string, raises nothing and
\* makes no agent call and no judge call.
C3_NoPromptsMessage ==
  NoPromptsDoc =>
    /\ calls = <<>>
    /\ raised = "none"
    /\ pc # "start" => pc = "done" /\ ret = NoPromptsMessage

AnyFailed == \E k \in DOMAIN calls : ~calls[k].ok

\* C4: no call is issued after a failed agent or judge call (not the same
\* call again, no call of a later prompt); the failure leaves run_tests as
\* an exception, after which nothing more happens; no report is returned or
\* written.
C4_FailStop ==
  /\ \A k \in 1..(Len(calls) - 1) : calls[k].ok
  /\ AnyFailed =>
       /\ ret = NoReturn
       /\ file = <<>>
       /\ pc = "failed" \/ (cp_pc = "raised" /\ ENABLED Propagate)
       /\ pc = "failed" => raised \in {"AgentError", "JudgeError"}
  /\ pc = "failed" => ~ENABLED Next

\* C4 witness: a judge call failed in a run over several prompts.
C4_Witness ==
  /\ pc = "failed"
  /\ raised = "JudgeError"
  /\ AnyFailed
  /\ Len(doc.prompts) >= 2

\* C5: the report file is written at most once, only when every loaded
\* prompt has its result, and with the text run_tests returns; a run that
\* fails or finds no prompts writes nothing.
C5_SingleWrite ==
  /\ Len(file) <= 1
  /\ file # <<>> =>
       /\ pc = "done"
       /\ ret = [kind |-> "report", value |-> file[1]]
       /\ prompts # <<>>
       /\ Len(all_results) = Len(prompts)
       /\ \A i \in DOMAIN prompts : all_results[i].prompt = prompts[i]
  /\ ret.kind = "report" => file = <<ret.value>>
  /\ (raised # "none" \/ ret = NoPromptsMessage) => file = <<>>

\* C5 witness: the report of a run over several prompts has been written.
C5_Witness ==
  /\ pc = "done"
  /\ Len(file) = 1
  /\ Len(prompts) >= 2

\* C6: a successful run over a list of n >= 1 entries has one result, one
\* row of the summary table and one section for each of the first min(n, 5)
\* entries, in document order, and reports that count.
C6_FirstFiveInOrder ==
  ret.kind = "report" =>
    LET n == Len(doc.prompts)
        m == IF n < PromptLimit THEN n ELSE PromptLimit
    IN /\ n >= 1
       /\ ret.value.count = m
       /\ Len(all_results) = m
       /\ Len(ret.value.rows) = m
       /\ Len(ret.value.sections) = m
       /\ \A i \in 1..m :
            /\ all_results[i].prompt = doc.prompts[i]
            /\ ret.value.rows[i].id = Get(doc.prompts[i], "id", <<"Unknown">>)
            /\ ret.value.sections[i].query = doc.prompts[i].text
            /\ ret.value.sections[i].report = all_results[i].report

\* C6 witness: a successful run over a document of more than 5 entries.
C6_Witness ==
  /\ ret.kind = "report"
  /\ Len(doc.prompts) > PromptLimit
  /\ ret.value.count = PromptLimit

\* ------------------------------------------- the report of a finished run
\* Phrases a synthesized report may hold, and what may stand between two of
\* them: a space (same line) or a line break.
Phrases ==
  { ScoreLine,
    <<"Overall", " ", "Reliability", " ", "Score", ":", " ",
      "6", ".", "0", "/", "1", "0">>,
    <<"reliability", " ", "score", " ", "of", " ", "8">>,
    <<"overall", " ", "score", " ", "of", " ", "9">>,
    <<"overall", " ", "score", " ", "out", " ", "of", " ", "1", "0">>,
    <<"Overall", " ", "Score", ":", " ", "6", "/", "1", "0">>,
    <<"score", " ", "of", " ", "5", "/", "1", "0">>,
    <<"Score", ":", " ", "8", ".", "5">>,
    <<"F10">> }

Separators == {" ", "NL"}

RECURSIVE PhraseTexts(_)
\* the texts of n phrases
PhraseTexts(n) ==
  IF n = 1 THEN Phrases
  ELSE {t \o <<sep>> \o ph :
          t \in PhraseTexts(n - 1), sep \in Separators, ph \in Phrases}

ReportTexts == UNION {PhraseTexts(n) : n \in 1..MaxPhrases}

\* run_tests after the last test_prompt of a run over one prompt, for every
\* report text the judge may have synthesized
InitScore ==
  /\ repeat_count = RepeatSlots
  /\ max_tokens_per_call \in ConfigMaxTokens
  /\ doc = [isNone |-> FALSE, hasPrompts |-> TRUE, promptsIsNone |-> FALSE,
            prompts |-> Entries(1)]
  /\ pc = "save"
  /\ prompts = Entries(1)
  /\ pidx = 1
  /\ response = <<>>
  /\ visibility_evaluation = <<>>
  /\ responses = <<>>
  /\ repeatability_evaluation = <<>>
  /\ \E t \in ReportTexts :
       all_results = <<[prompt |-> Entry(1),
                        visibility_evaluation |-> <<"F1000">>,
                        repeatability_evaluation |-> <<"F1000">>,
                        report |-> t]>>
  /\ file = <<>>
  /\ ret = NoReturn
  /\ raised = "none"
  /\ calls = <<>>
  /\ ChunkIdle
  /\ ClientReady

NextScore == SaveReport

SpecScore == InitScore /\ [][NextScore]_vars

\* ------------------------------------------- claims on _combine_reports
\* text holds sub
Contains(text, sub) ==
  \E s \in 1..(Len(text) - Len(sub) + 1) :
    SubSeq(text, s, s + Len(sub) - 1) = sub

\* the marker line with score x
MarkerLine(x) ==
  <<"Overall", " ", "Reliability", " ", "Score", ":", " ">> \o x \o Slash10

MarkerScores == {<<"7", ".", "5">>, <<"6", ".", "0">>}

\* C9: when the report holds the marker line `Overall Reliability Score:
\* X.X/10` (for one X.X), whatever else it holds, the score cell of its row
\* is X.X.
C9_MarkerScoreShown ==
  ret.kind = "report" =>
    \A i \in DOMAIN all_results : \A x \in MarkerScores :
      (\A y \in MarkerScores :
         Contains(all_results[i].report, MarkerLine(y)) <=> y = x)
        => ret.value.rows[i].score = x

\* the six patterns in the listed priority order
ListedPatterns ==
  << Pat(<<"overall", " ", "score">>, TRUE, Slash10),
     Pat(<<"overall", " ", "score">>, TRUE, <<>>),
     Pat(<<"reliability", " ", "score">>, TRUE, Slash10),
     Pat(<<"reliability", " ", "score">>, TRUE, <<>>),
     Pat(<<"score", " ", "of", " ">>, FALSE, Slash10),
     Pat(<<"score", " ", "of", " ">>, FALSE, <<>>) >>

\* the listed patterns that match text
Hits(text) ==
  {k \in DOMAIN ListedPatterns : Matches(text, ListedPatterns[k])}

\* C10: the score cell is the first group of the first listed pattern that
\* matches the report (case-insensitively), whatever a later pattern would
\* capture; it is N/A when none matches; the section holds the full report
\* in both cases.
C10_FirstPatternWins ==
  ret.kind = "report" =>
    \A i \in DOMAIN all_results :
      LET t == all_results[i].report
          cell == ret.value.rows[i].score
      IN /\ Hits(t) # {} =>
              cell = Group1(t, ListedPatterns[SetMin(Hits(t))])
         /\ Hits(t) = {} => cell = NA
         /\ ret.value.sections[i].report = t

\* C10 witness: a report that two listed patterns match with different
\* groups, whose cell is the group of the first.
C10_Witness ==
  /\ ret.kind = "report"
  /\ LET t == all_results[1].report
     IN \E k \in Hits(t) : \E j \in Hits(t) :
          /\ k = SetMin(Hits(t))
          /\ k < j
          /\ Group1(t, ListedPatterns[k]) # Group1(t, ListedPatterns[j])
          /\ ret.value.rows[1].score = Group1(t, ListedPatterns[k])

\* ------------------------------------- claims on evaluate_repeatability
\* C11: evaluate_repeatability called with fewer than 5 responses raises
\* (IndexError) before any judge call is made.  So a test_prompt with
\* repeat_count < 5 makes its visibility evaluation and its repeat_count
\* repeatability calls of the agent, then fails at the repeatability
\* evaluation: no judge call of the repeatability evaluation or of the
\* synthesis is made, no result is produced, no report returned or written.
C11_TooFewResponsesFail ==
  /\ pc = "agent_rep" => Len(responses) < repeat_count
  /\ raised = "IndexError" =>
       /\ pc = "failed"
       /\ repeat_count < RepeatSlots
       /\ CountAt(1) = 1 /\ CountAt(2) >= 1
       /\ CountAt(3) = repeat_count
       /\ ~AnyFailed
  /\ repeat_count < RepeatSlots =>
       /\ pc \notin {"eval_rep", "gen_report", "save"}
       /\ CountAt(4) = 0 /\ CountAt(5) = 0
       /\ all_results = <<>>
       /\ ret.kind # "report"
       /\ file = <<>>
       /\ (pc = "failed" /\ calls # <<>> /\ ~AnyFailed) =>
            raised = "IndexError"
  /\ pc \in {"eval_rep", "gen_report"} => repeat_count >= RepeatSlots

\* C11 witness: with repeat_count one short of 5, the run has failed at the
\* repeatability evaluation after all its agent calls succeeded.
C11_Witness ==
  /\ raised = "IndexError"
  /\ repeat_count = RepeatSlots - 1
  /\ CountAt(3) = repeat_count
  /\ CountAt(2) >= 1
  /\ CountAt(4) = 0

\* --------------------------------------------------- LLMClient on its own
\* Prompts sent directly to the client.
ClientPrompts == {<<"F100">>, <<"SumPre", "F8000", "F10">>}

\* what generate_text sends for a client: the URL and the credential of its
\* branch, or nothing
Request(client) ==
  IF Branch(client) = "none" THEN [url |-> "", key |-> ""]
  ELSE [url |-> client.api_url, key |-> client.api_key]

InitClient ==
  /\ repeat_count = RepeatSlots
  /\ max_tokens_per_call = DefaultMaxTokens
  /\ pc = "unit"
  /\ RunIdle
  /\ ChunkIdle
  /\ environ \in Environs
  /\ llm_provider \in ProviderArgs
  /\ llm_client = NoClient
  /\ gt_calls = <<>>

\* LLMClient(provider, model)
Construct ==
  /\ pc = "unit"
  /\ llm_client.state = "none"
  /\ llm_client' = LLMClient_init(llm_provider, environ)
  /\ UNCHANGED <<repeat_count, max_tokens_per_call, doc, environ,
                 llm_provider, gt_calls, runVars, calls, cpVars>>

\* one generate_text call on the constructed client
ClientGenerate ==
  /\ pc = "unit"
  /\ llm_client.state = "constructed"
  /\ Len(gt_calls) < MaxCalls
  /\ \E prompt \in ClientPrompts,
        max_tokens \in {DefaultMaxTokens, SummaryMaxTokens} :
       \E out \in generate_text(prompt, max_tokens) :
         gt_calls' = Append(gt_calls,
                            [branch |-> Branch(llm_client),
                             url |-> Request(llm_client).url,
                             key |-> Request(llm_client).key,
                             max_tokens |-> max_tokens,
                             ok |-> out.ok,
                             text |-> out.text])
  /\ UNCHANGED <<repeat_count, max_tokens_per_call, doc, environ,
                 llm_provider, llm_client, runVars, calls, cpVars>>

NextClient == Construct \/ ClientGenerate

SpecClient == InitClient /\ [][NextClient]_vars

\* ------------------------------------------------- claims on LLMClient
\* the provider name is one of the two supported ones (in any letter case)
SupportedName ==
  /\ ~llm_provider.isNone
  /\ llm_provider.name \in {"openai", "OpenAI", "anthropic", "ANTHROPIC"}

\* the environment variable of the named provider
KeyOfProvider ==
  IF llm_provider.name \in {"openai", "OpenAI"}
  THEN environ.OPENAI_API_KEY ELSE environ.ANTHROPIC_API_KEY

\* C12: the construction of the client succeeds only if the provider name
\* is one of the two supported providers and that provider's API key is in
\* the environment (and then the client holds that key); otherwise it fails,
\* for an unsupported name with an error naming the provider and for a
\* missing key with an error naming the variable.  So every generate_text
\* call is made on a client of one of the two providers and takes that
\* provider's branch, with its URL and key: a call either returns a text or
\* fails with an API error, never for want of a provider or a key.
C12_ConstructionValidates ==
  /\ llm_client.state = "constructed" =>
       /\ SupportedName
       /\ KeyOfProvider.set /\ KeyOfProvider.value # ""
       /\ llm_client.api_key = KeyOfProvider.value
       /\ llm_client.provider \in {"openai", "anthropic"}
       /\ llm_client.provider = "openai" <=>
            llm_provider.name \in {"openai", "OpenAI"}
  /\ llm_client.state = "failed" =>
       /\ ~SupportedName \/ ~KeyOfProvider.set \/ KeyOfProvider.value = ""
       /\ (~llm_provider.isNone /\ ~SupportedName) =>
            llm_client.error
              = <<"ValueError", "Unsupported provider", llm_provider.name>>
       /\ SupportedName =>
            llm_client.error
              = <<"ValueError",
                  IF llm_provider.name \in {"openai", "OpenAI"}
                  THEN "OPENAI_API_KEY" ELSE "ANTHROPIC_API_KEY",
                  "is required">>
  /\ (llm_client.state # "none" /\ (~SupportedName \/ ~KeyOfProvider.set))
       => llm_client.state = "failed"
  /\ gt_calls # <<>> => llm_client.state = "constructed"
  /\ \A k \in DOMAIN gt_calls :
       /\ gt_calls[k].branch \in {"openai", "anthropic"}
       /\ gt_calls[k].branch = llm_client.provider
       /\ gt_calls[k].url
            = (IF gt_calls[k].branch = "openai"
               THEN OpenAIUrl ELSE AnthropicUrl)
       /\ gt_calls[k].key = KeyOfProvider.value
       /\ gt_calls[k].key # ""
       /\ gt_calls[k].ok => gt_calls[k].text \notin {<<>>, <<"None">>}

\* C12 witness: a client constructed from a provider name in capitals has
\* answered one call and failed another with an API error.
C12_Witness ==
  /\ llm_client.state = "constructed"
  /\ llm_provider.name = "ANTHROPIC"
  /\ Len(gt_calls) >= 2
  /\ \E j, k \in DOMAIN gt_calls : gt_calls[j].ok /\ ~gt_calls[k].ok

\* ------------------------------------------ claims on the pauses of a run
IsPause(e) == e.kind = "sleep"

IsRepeatCall(e) == e.kind = "agent" /\ e.phase = "repeatability"

Pauses == Len(SelectSeq(calls, IsPause))

\* the repeatability loop of the current test_prompt is over
LoopOver == pc \in {"eval_rep", "gen_report"} \/ TestPromptCompleted

\* C13 as stated: a pause stands between every two successive repeatability
\* calls of the agent and nowhere else: none before the first such call,
\* none after the last, none next to a judge call; a prompt has
\* repeat_count - 1 pauses.
C13_PausesOnlyBetween ==
  /\ \A i \in DOMAIN calls :
       IsPause(calls[i]) =>
         /\ i > 1 /\ IsRepeatCall(calls[i - 1])
         /\ i < Len(calls) => IsRepeatCall(calls[i + 1])
  /\ \A i \in 2..Len(calls) :
       (IsRepeatCall(calls[i]) /\ CountAt(3) > 1
          /\ \E h \in 1..(i - 1) : IsRepeatCall(calls[h]))
         => IsPause(calls[i - 1])
  /\ LoopOver => Pauses = repeat_count - 1

\* C13, amended: a pause follows every repeatability call of the agent that
\* returns, the last one included, and these are the only pauses: each pause
\* directly follows such a call, so there is none before the first
\* repeatability call, in the visibility phase or among the judge calls; the
\* pause after the last call comes directly before the first judge call of
\* the repeatability evaluation.  A prompt whose loop has ended has
\* repeat_count pauses; a call that fails is followed by no pause.
C13_PauseAfterEachCall ==
  /\ \A i \in DOMAIN calls :
       IsPause(calls[i]) =>
         i > 1 /\ IsRepeatCall(calls[i - 1]) /\ calls[i - 1].ok
  /\ \A i \in DOMAIN calls :
       (IsRepeatCall(calls[i]) /\ calls[i].ok) =>
         i < Len(calls) /\ IsPause(calls[i + 1])
  /\ \A i \in DOMAIN calls :
       (IsRepeatCall(calls[i]) /\ ~calls[i].ok) => i = Len(calls)
  /\ \A i \in 2..Len(calls) :
       (Place(calls[i]) = 4 /\ Place(calls[i - 1]) # 4)
         => IsPause(calls[i - 1])
  /\ Pauses <= repeat_count
  /\ LoopOver => Pauses = repeat_count

\* C13 witness: the repeatability evaluation has called the judge right
\* after the pause that followed the last of several repeatability calls.
C13_Witness ==
  /\ pc = "eval_rep"
  /\ repeat_count >= 2
  /\ Pauses = repeat_count
  /\ \E i \in 2..Len(calls) : Place(calls[i]) = 4 /\ IsPause(calls[i - 1])

\* --------------------------- claims on the note of chunk_and_process
\* C14: when the estimate of the rendered prompt exceeds the budget and no
\* field is longer than 8000 characters, chunk_and_process makes no
\* summarization call and exactly one generate_text call, whose prompt is
\* the note followed by the rendering of the template with the fields as
\* given, and returns that call's result.  The final prompt of an invocation
\* begins with the note exactly when the first estimate was over budget,
\* whether or not a field was summarized.
C14_NoteWithoutSummary ==
  /\ (OverBudget /\ LargeFields = {}) =>
       /\ Len(cp_calls) <= 1
       /\ cp_pc # "loop"
       /\ \A k \in DOMAIN cp_calls :
            /\ Head(cp_calls[k].prompt) # "SumPre"
            /\ cp_calls[k].max_tokens = DefaultMaxTokens
            /\ cp_calls[k].prompt = <<"Note">> \o Rendered
       /\ cp_pc \in {"returned", "raised"} => Len(cp_calls) = 1
       /\ cp_pc = "returned" =>
            cp_calls[1].ok /\ cp_ret = cp_calls[1].text
  /\ cp_pc = "returned" =>
       (Head(cp_calls[Len(cp_calls)].prompt) = "Note" <=> OverBudget)

\* C14 witness: a completed over-budget invocation whose largest field has
\* exactly 8000 characters: one call, with the note and the full rendering.
C14_Witness ==
  /\ cp_pc = "returned"
  /\ OverBudget
  /\ LargeFields = {}
  /\ \E j \in DOMAIN cp_content : CharLen(cp_content[j][2]) = LargeFieldChars
  /\ Len(cp_calls) = 1
  /\ cp_calls[1].prompt = <<"Note">> \o Rendered

====
